---- MODULE Spec2Model ----
\* Model of the Person CRUD service: src/api/v2/views/persons.py (the five
\* route handlers) and src/models/person.py (the Person table).
\* Strings are sequences of one-character strings, so that escaping and the
\* decimal form of an id are computed and not assumed.
EXTENDS Integers, Sequences, FiniteSets, TLC

\* Largest id the storage layer hands out in the model.
MaxId == 3

\* ---------------------------------------------------------------------
\* Python values, JSON bodies, path tokens
\* ---------------------------------------------------------------------
PyStr(s) == [t |-> "str", s |-> s, n |-> 0]
PyInt(n) == [t |-> "int", s |-> <<>>, n |-> n]
PyNone == [t |-> "none", s |-> <<>>, n |-> 0]

Digits == <<"0", "1", "2", "3", "4", "5", "6", "7", "8", "9">>

\* str(n) for n >= 0: the decimal form of an id as it appears in a path
\* or in a name.
RECURSIVE IdStr(_)
IdStr(n) ==
    IF n < 10 THEN <<Digits[n + 1]>>
    ELSE IdStr(n \div 10) \o <<Digits[(n % 10) + 1]>>

\* The names a client sends in a body.
NameInputs == { <<"a">>, <<"2">>, <<"<">> }

\* markupsafe.escape on one character.
EscapeChar(c) ==
    CASE c = "&"  -> <<"&", "a", "m", "p", ";">>
      [] c = "<"  -> <<"&", "l", "t", ";">>
      [] c = ">"  -> <<"&", "g", "t", ";">>
      [] c = "'"  -> <<"&", "#", "3", "9", ";">>
      [] c = "\"" -> <<"&", "#", "3", "4", ";">>
      [] OTHER    -> <<c>>

\* markupsafe.escape, applied to the name before it is stored.
RECURSIVE escape(_)
escape(s) ==
    IF s = <<>> THEN <<>> ELSE EscapeChar(Head(s)) \o escape(Tail(s))

\* The values the "name" field of a body takes: strings, the empty string,
\* a number, null.
NameValues ==
    {PyStr(s) : s \in NameInputs} \cup {PyStr(<<>>), PyInt(123), PyNone}

\* request.get_json(): null, a JSON object (its key set and the value of
\* "name", None when absent), or a JSON array (its elements as keys).
NullBody == [k |-> "null", keys |-> {}, name |-> PyNone]
Bodies ==
    {NullBody}
      \cup {[k |-> "dict", keys |-> {}, name |-> PyNone]}
      \cup {[k |-> "dict", keys |-> {"age"}, name |-> PyNone]}
      \cup {[k |-> "dict", keys |-> {"name"}, name |-> v] : v \in NameValues}
      \cup {[k |-> "list", keys |-> {"name"}, name |-> PyNone]}

\* The <user_id> path segments a client sends: the names, the stored
\* (escaped) names, the decimal ids up to one past the largest id, a
\* negative number and a word that is nobody's name.
Tokens ==
    NameInputs
      \cup {escape(s) : s \in NameInputs}
      \cup {IdStr(i) : i \in 1..(MaxId + 1)}
      \cup { <<"-", "1">>, <<"b">> }

\* ---------------------------------------------------------------------
\* The Person table
\* ---------------------------------------------------------------------
NoPerson == [id |-> 0, name |-> <<>>]

Ids(st) == {p.id : p \in st}

\* id: mapped_column(Integer, primary_key=True): the storage layer assigns
\* an id no stored row has.
NewIdsAny(st) == 1..MaxId
NewIds(st) == (1..MaxId) \ Ids(st)

\* name: mapped_column(String, unique=True): a row may take the name nm
\* unless another row (an id other than self) already has it.
UniqueNameOff(st, nm, self) == TRUE
UniqueName(st, nm, self) == \A p \in st : p.name = nm => p.id = self

\* Person.validate_id
validate_id(person_id) ==
    CASE person_id.t = "none" -> "False"
      [] person_id.t = "str" ->
            IF person_id.s = <<>> THEN "False" ELSE "TypeError"
      [] person_id.t = "int" ->
            IF person_id.n > 0 THEN "True" ELSE "False"

\* Person.validate_name: a non-empty string.
validate_name(name) == name.t = "str" /\ Len(name.s) > 0

\* Person.query.filter_by(name=...).first(): the row, or None.
FilterByNameFirst(st, nm) ==
    IF \E p \in st : p.name = nm
    THEN CHOOSE p \in st : p.name = nm
    ELSE NoPerson

\* db.get_or_404(Person, ident, description="User not found")
GetOr404(st, ident) ==
    IF \E p \in st : p.id = ident.n
    THEN [status |-> 200, desc |-> "", person |-> CHOOSE p \in st : p.id = ident.n]
    ELSE [status |-> 404, desc |-> "User not found", person |-> NoPerson]

\* The decimal value of a token, 0 when it is not a positive decimal number
\* within the ids of the model.
TokenId(tok) ==
    IF \E i \in 1..(MaxId + 1) : IdStr(i) = tok
    THEN CHOOSE i \in 1..(MaxId + 1) : IdStr(i) = tok
    ELSE 0

\* The lookup shared by get, update and delete: by name first, then by id.
\* status 200 means a row was resolved.
ResolveIdFirst(st, user_id) ==
    IF \E p \in st : p.id = TokenId(user_id)
    THEN [status |-> 200, desc |-> "", person |-> CHOOSE p \in st : p.id = TokenId(user_id)]
    ELSE IF \E p \in st : p.name = user_id
    THEN [status |-> 200, desc |-> "", person |-> FilterByNameFirst(st, user_id)]
    ELSE [status |-> 404, desc |-> "User not found", person |-> NoPerson]
ResolvePerson(st, user_id) ==
    IF ~validate_name(PyStr(user_id))
    THEN [status |-> 500, desc |-> "UnboundLocalError", person |-> NoPerson]
    ELSE LET person == FilterByNameFirst(st, user_id) IN
         IF person # NoPerson
         THEN [status |-> 200, desc |-> "", person |-> person]
         ELSE LET v == validate_id(PyStr(user_id)) IN
              CASE v = "TypeError" ->
                     [status |-> 500, desc |-> "TypeError", person |-> NoPerson]
                [] v = "True" -> GetOr404(st, PyStr(user_id))
                [] v = "False" ->
                     [status |-> 404,
                      desc |-> "UID must be a positive integer or valid string",
                      person |-> NoPerson]

\* The checks create and update make on the body before anything else.
\* status 200 means the body passed.
ValidateBody(body) ==
    IF body.k = "null" \/ body.keys = {}
    THEN [status |-> 400, desc |-> "Not a JSON"]
    ELSE IF "name" \notin body.keys
    THEN [status |-> 400, desc |-> "Missing name"]
    ELSE IF body.k = "list"
    THEN [status |-> 500, desc |-> "AttributeError"]
    ELSE IF ~validate_name(body.name)
    THEN [status |-> 400, desc |-> "Name must be a string"]
    ELSE [status |-> 200, desc |-> ""]

\* db.select(Person).order_by(Person.id): the rows by ascending id.
RECURSIVE OrderByIdDesc(_)
OrderByIdDesc(st) ==
    IF st = {} THEN <<>>
    ELSE LET p == CHOOSE q \in st : \A r \in st : r.id <= q.id
         IN <<p>> \o OrderByIdDesc(st \ {p})
RECURSIVE OrderById(_)
OrderById(st) ==
    IF st = {} THEN <<>>
    ELSE LET p == CHOOSE q \in st : \A r \in st : q.id <= r.id
         IN <<p>> \o OrderById(st \ {p})

\* ---------------------------------------------------------------------
\* State
\* ---------------------------------------------------------------------
VARIABLES store, resp
vars == <<store, resp>>

Response(op, token, body, status, desc, target, result, list) ==
    [op |-> op, token |-> token, body |-> body, status |-> status,
     desc |-> desc, target |-> target, result |-> result, list |-> list]

Init ==
    /\ store = {}
    /\ resp = Response("none", <<>>, NullBody, 0, "", NoPerson, NoPerson, <<>>)

\* GET /
view_persons ==
    /\ resp' = Response("list", <<>>, NullBody, 200, "", NoPerson, NoPerson,
                        OrderById(store))
    /\ UNCHANGED store

\* GET /<user_id>
view_person_by_id ==
    \E user_id \in Tokens :
        LET r == ResolvePerson(store, user_id) IN
        /\ resp' = Response("get", user_id, NullBody, r.status, r.desc,
                            r.person, r.person, <<>>)
        /\ UNCHANGED store

\* POST /
create_person ==
    \E body \in Bodies :
        LET b == ValidateBody(body) IN
        IF b.status # 200
        THEN /\ resp' = Response("create", <<>>, body, b.status, b.desc,
                                 NoPerson, NoPerson, <<>>)
             /\ UNCHANGED store
        ELSE LET nm == escape(body.name.s) IN
             IF ~UniqueName(store, nm, 0)
             THEN /\ resp' = Response("create", <<>>, body, 500,
                                      "IntegrityError", NoPerson, NoPerson, <<>>)
                  /\ UNCHANGED store
             ELSE \E id \in NewIds(store) :
                      LET person == [id |-> id, name |-> nm] IN
                      /\ store' = store \cup {person}
                      /\ resp' = Response("create", <<>>, body, 201, "",
                                          NoPerson, person, <<>>)

\* PUT /<user_id>
update_person ==
    \E user_id \in Tokens, body \in Bodies :
        LET b == ValidateBody(body) IN
        IF b.status # 200
        THEN /\ resp' = Response("update", user_id, body, b.status, b.desc,
                                 NoPerson, NoPerson, <<>>)
             /\ UNCHANGED store
        ELSE LET r == ResolvePerson(store, user_id) IN
             IF r.status # 200
             THEN /\ resp' = Response("update", user_id, body, r.status,
                                      r.desc, NoPerson, NoPerson, <<>>)
                  /\ UNCHANGED store
             ELSE LET nm == escape(body.name.s)
                      person == [id |-> r.person.id, name |-> nm] IN
                  IF ~UniqueName(store, nm, r.person.id)
                  THEN /\ resp' = Response("update", user_id, body, 500,
                                           "IntegrityError", r.person,
                                           NoPerson, <<>>)
                       /\ UNCHANGED store
                  ELSE /\ store' = (store \ {r.person}) \cup {person}
                       /\ resp' = Response("update", user_id, body, 200, "",
                                           r.person, person, <<>>)

\* DELETE /<user_id>
delete_person ==
    \E user_id \in Tokens :
        LET r == ResolvePerson(store, user_id) IN
        IF r.status # 200
        THEN /\ resp' = Response("delete", user_id, NullBody, r.status,
                                 r.desc, NoPerson, NoPerson, <<>>)
             /\ UNCHANGED store
        ELSE /\ store' = store \ {r.person}
             /\ resp' = Response("delete", user_id, NullBody, 204, "",
                                 r.person, NoPerson, <<>>)

Next ==
    \/ view_persons
    \/ view_person_by_id
    \/ create_person
    \/ update_person
    \/ delete_person

Spec == Init /\ [][Next]_vars

\* ---------------------------------------------------------------------
\* Properties
\* ---------------------------------------------------------------------
Resolving == {"get", "update", "delete"}

\* The row named tok before the step, NoPerson when there is none.
NamedBefore(tok) == FilterByNameFirst(store, tok)

\* tok is the decimal form of a positive integer.
IsPosIntToken(tok) ==
    /\ tok # <<>>
    /\ \A i \in 1..Len(tok) : \E d \in 1..10 : Digits[d] = tok[i]
    /\ \E i \in 1..Len(tok) : tok[i] # "0"

\* The step is a request with a body that passes validation, or without one.
BodyPasses(r) == r.op \in {"get", "delete"} \/ ValidateBody(r.body).status = 200

\* C1: no two stored Person records have the same name, whatever sequence
\* of creates, updates and deletes led to the state.
C1_UniqueNames ==
    \A p \in store : \A q \in store : p.name = q.name => p = q

\* A create or an update asked for a name another row holds, and was refused.
C1_Witness ==
    /\ resp.op \in {"create", "update"}
    /\ resp.desc = "IntegrityError"
    /\ \E p \in store : p.name = escape(resp.body.name.s)
    /\ Cardinality(store) >= 2

\* C2: when a row's name equals the token, get, update and delete act on
\* that row, also when another row's id is the token's integer value; the
\* lookup leaves the name path only when no row has that name.
C2_NameFirst ==
    [][ (resp'.op \in Resolving /\ BodyPasses(resp'))
          => /\ NamedBefore(resp'.token) # NoPerson
                  => resp'.target = NamedBefore(resp'.token)
             /\ resp'.target # NoPerson
                  => /\ resp'.target \in store
                     /\ (resp'.target.name # resp'.token
                           => NamedBefore(resp'.token) = NoPerson) ]_vars

\* A request resolved by name a token that is also another row's id.
C2_Witness ==
    /\ resp.op \in {"get", "update"}
    /\ resp.status = 200
    /\ resp.target.name = resp.token
    /\ \E q \in store : q.id # resp.target.id /\ IdStr(q.id) = resp.token

\* C3: after a successful create from name n, a get by the returned id and
\* a get by n both answer 200 with the created record. (Stated for names
\* that escaping leaves as they are.)
C3_GetAfterCreate ==
    [][ (/\ resp.op = "create" /\ resp.status = 201
         /\ escape(resp.body.name.s) = resp.body.name.s
         /\ resp'.op = "get"
         /\ resp'.token \in {IdStr(resp.result.id), resp.body.name.s})
          => (resp'.status = 200 /\ resp'.result = resp.result) ]_vars

\* C4: a get, update or delete whose token is nobody's name and not a
\* positive integer answers 404 with the invalid-format description and
\* leaves the store as it was.
C4_MalformedToken ==
    [][ (/\ resp'.op \in Resolving /\ BodyPasses(resp')
         /\ NamedBefore(resp'.token) = NoPerson
         /\ ~IsPosIntToken(resp'.token))
          => /\ resp'.status = 404
             /\ resp'.desc = "UID must be a positive integer or valid string"
             /\ store' = store ]_vars

\* C5: a get, update or delete whose token is nobody's name and is a
\* positive integer that is no row's id answers 404 "not found" and leaves
\* the store as it was.
C5_MissingId ==
    [][ (/\ resp'.op \in Resolving /\ BodyPasses(resp')
         /\ NamedBefore(resp'.token) = NoPerson
         /\ IsPosIntToken(resp'.token)
         /\ \A p \in store : IdStr(p.id) # resp'.token)
          => /\ resp'.status = 404
             /\ resp'.desc = "User not found"
             /\ store' = store ]_vars

\* C6: create answers 400 "missing name" to a JSON object without a name
\* field ({} included), 400 "invalid name" to a name that is not a
\* non-empty string, creates nothing in both cases, and answers 201 only to
\* a non-empty string name, with exactly one new record.
C6_CreateValidation ==
    [][ resp'.op = "create"
          => /\ (resp'.body.k = "dict" /\ "name" \notin resp'.body.keys)
                  => /\ resp'.status = 400
                     /\ resp'.desc = "Missing name"
                     /\ store' = store
             /\ (/\ resp'.body.k = "dict" /\ "name" \in resp'.body.keys
                 /\ ~validate_name(resp'.body.name))
                  => /\ resp'.status = 400
                     /\ resp'.desc = "Name must be a string"
                     /\ store' = store
             /\ resp'.status = 201
                  => /\ resp'.body.k = "dict"
                     /\ validate_name(resp'.body.name)
                     /\ store \subseteq store'
                     /\ Cardinality(store' \ store) = 1 ]_vars

\* C7: after a successful update from name a to a different name b, a get
\* by the record's id and a get by b return the record with the new name,
\* and a get by a answers 404 when a is no other row's name or id. (Stated
\* for names b that escaping leaves as they are.)
C7_GetAfterUpdate ==
    [][ (/\ resp.op = "update" /\ resp.status = 200
         /\ resp.result.name # resp.target.name
         /\ escape(resp.body.name.s) = resp.body.name.s
         /\ resp'.op = "get")
          => /\ resp'.token \in {IdStr(resp.result.id), resp.body.name.s}
                  => (resp'.status = 200 /\ resp'.result = resp.result)
             /\ (/\ resp'.token = resp.target.name
                 /\ \A p \in store : IdStr(p.id) # resp'.token)
                  => resp'.status = 404 ]_vars

\* C8: a delete addressed by the id or by the name of a stored record
\* answers 204 with an empty body and removes exactly that record; a get by
\* that id or that name right after it answers 404.
C8_Delete ==
    [][ /\ \A p \in store :
              (/\ resp'.op = "delete"
               /\ resp'.token \in {IdStr(p.id), p.name}
               /\ \A q \in store \ {p} :
                      resp'.token \notin {IdStr(q.id), q.name})
                => /\ resp'.status = 204
                   /\ resp'.result = NoPerson
                   /\ store' = store \ {p}
        /\ (/\ resp.op = "delete" /\ resp.status = 204
            /\ resp'.op = "get"
            /\ resp'.token \in {IdStr(resp.target.id), resp.target.name}
            /\ \A q \in store : resp'.token \notin {IdStr(q.id), q.name})
             => resp'.status = 404 ]_vars

\* C9: list answers 200 with exactly the stored records, each once, by
\* strictly ascending id, and does not change the store; after a create on
\* an empty store it returns the created record alone, with a positive id.
C9_List ==
    [][ resp'.op = "list"
          => /\ resp'.status = 200
             /\ store' = store
             /\ Len(resp'.list) = Cardinality(store)
             /\ {resp'.list[i] : i \in 1..Len(resp'.list)} = store
             /\ \A i \in 1..Len(resp'.list) : \A j \in 1..Len(resp'.list) :
                    i < j => resp'.list[i].id < resp'.list[j].id
             /\ (resp.op = "create" /\ resp.status = 201 /\ store = {resp.result})
                  => /\ resp'.list = <<resp.result>>
                     /\ resp.result.name = escape(resp.body.name.s)
                     /\ resp.result.id > 0 ]_vars

\* A list of a store whose rows were not created in the order of their ids.
C9_Witness ==
    /\ resp.op = "list"
    /\ Len(resp.list) >= 2
    /\ resp.list = OrderById(store)

\* C10: ids are unique among the stored records and never change: a
\* successful update changes the name of the resolved record only and
\* leaves its id and the other records alone; a create gives the new record
\* a positive id no stored record has and leaves the stored records alone.
C10_IdsStable ==
    [][ /\ \A p \in store' : \A q \in store' : p.id = q.id => p = q
        /\ (resp'.op = "update" /\ resp'.status = 200)
             => /\ resp'.target \in store
                /\ resp'.result.id = resp'.target.id
                /\ Ids(store') = Ids(store)
                /\ \A p \in store : p.id # resp'.target.id => p \in store'
                /\ \A p \in store' : p.id # resp'.target.id => p \in store
        /\ (resp'.op = "create" /\ resp'.status = 201)
             => /\ resp'.result.id > 0
                /\ resp'.result.id \notin Ids(store)
                /\ store' = store \cup {resp'.result} ]_vars

\* An update renamed one of several records.
C10_Witness ==
    /\ resp.op = "update"
    /\ resp.status = 200
    /\ resp.result.name # resp.target.name
    /\ Cardinality(store) >= 2

====
